---- MODULE Spec2Model ----
(***************************************************************************)
(* The owner dashboard of the Firebase/Telegram bot in src/main.py: the    *)
(* callback-query handler dashboard_callback, the free-text handler        *)
(* device_message_handler, the device detail view, and the Firebase tree   *)
(* they read and write.                                                    *)
(*                                                                         *)
(* A string is a sequence of lexemes.  A lexeme is either a single         *)
(* character (operator-typed text, timestamps) or a chunk of characters    *)
(* that contains none of the separators ":" "/" " " (keys, literals of     *)
(* the source).  The separators are always lexemes of their own, so        *)
(* split, startswith and strip are computed on the sequence.               *)
(***************************************************************************)
EXTENDS Integers, Sequences, FiniteSets, TLC

VARIABLES
    store,                  \* the Firebase tree: leaf path -> scalar
    device_message_target,  \* context.user_data["device_message_target"]
    app_edit_target,        \* context.user_data["app_edit_target"]
    lastEvent,              \* the update the last handler run was given
    out,                    \* what that run sent back (screen, reply, fault)
    nEvents,                \* number of updates handled so far
    strftime_pads_year,     \* whether the platform's strftime pads %Y to 4 digits
    inflight                \* the locals of a toggle run between its read and its write

vars ==
    <<store, device_message_target, app_edit_target, lastEvent, out, nEvents,
      strftime_pads_year, inflight>>

----------------------------------------------------------------------------
(* Bounds *)

MaxEvents == 3

----------------------------------------------------------------------------
(* Python strings and scalars *)

RECURSIVE SumLen(_)
SumLen(s) == IF s = <<>> THEN 0 ELSE Len(Head(s)) + SumLen(Tail(s))

\* len(str): the number of characters
StrLen(s) == SumLen(s)

Str(s) == [t |-> "str", s |-> s, n |-> 0]
Num(n) == [t |-> "int", s |-> <<>>, n |-> n]

\* bool(value) of a scalar: the empty string and 0 are falsy
Truthy(v) == IF v.t = "str" THEN v.s # <<>> ELSE v.n # 0

DecDigit == <<"0", "1", "2", "3", "4", "5", "6", "7", "8", "9">>

DigitVal(c) == CHOOSE i \in 0..9 : DecDigit[i + 1] = c

IsDecimalChar(c) == \E i \in 1..10 : DecDigit[i] = c

\* str.isdigit() also accepts digit characters that are not decimal; the
\* lexeme "SUP2" stands for one of them, the superscript two (U+00B2)
IsDigitChar(c) == IsDecimalChar(c) \/ c = "SUP2"

IsSpaceChar(c) == c = " "

RECURSIVE LStrip(_)
LStrip(s) == IF s # <<>> /\ IsSpaceChar(Head(s)) THEN LStrip(Tail(s)) ELSE s

RECURSIVE RStrip(_)
RStrip(s) ==
    IF s # <<>> /\ IsSpaceChar(s[Len(s)]) THEN RStrip(SubSeq(s, 1, Len(s) - 1)) ELSE s

\* str.strip()
Strip(s) == RStrip(LStrip(s))

\* str.isdigit()
IsDigit(s) == s # <<>> /\ \A i \in 1..Len(s) : IsDigitChar(s[i])

\* whether int(s) succeeds on a string that passed isdigit()
IntParses(s) == \A i \in 1..Len(s) : IsDecimalChar(s[i])

RECURSIVE IntOf(_)
\* int(s) for a string of decimal digits
IntOf(s) ==
    IF s = <<>> THEN 0
    ELSE 10 * IntOf(SubSeq(s, 1, Len(s) - 1)) + DigitVal(s[Len(s)])

RECURSIVE DecStr(_)
\* str(n) for n >= 0
DecStr(n) ==
    IF n < 10 THEN <<DecDigit[n + 1]>>
    ELSE DecStr(n \div 10) \o <<DecDigit[(n % 10) + 1]>>

\* str(value)
ToStr(v) == IF v.t = "str" THEN v.s ELSE DecStr(v.n)

LowerLexeme(c) ==
    CASE c = "ON" -> "on"
      [] c = "OFF" -> "off"
      [] c = "KEDIP" -> "kedip"
      [] OTHER -> c

\* str.lower()
Lower(s) == [i \in 1..Len(s) |-> LowerLexeme(s[i])]

----------------------------------------------------------------------------
(* The Firebase tree behind FirebaseClient *)

IsPrefix(p, q) == Len(p) <= Len(q) /\ SubSeq(q, 1, Len(p)) = p

RECURSIVE SplitOn(_, _)
\* str.split(sep) on a lexeme sequence: the list of pieces
SplitOn(s, sep) ==
    IF \A i \in 1..Len(s) : s[i] # sep THEN <<s>>
    ELSE LET i == CHOOSE k \in 1..Len(s) : s[k] = sep /\ \A j \in 1..(k - 1) : s[j] # sep
         IN  <<SubSeq(s, 1, i - 1)>> \o SplitOn(SubSeq(s, i + 1, Len(s)), sep)

\* db.reference(key): the path's segments, empty segments dropped
PathOf(key) == SelectSeq(SplitOn(key, "/"), LAMBDA seg : seg # <<>>)

\* A node reference: what a read returned.  k is "none" (None), "scalar",
\* "dict", or "empty" (the {} the callers substitute); p is its path.
NoneRef == [k |-> "none", p |-> <<>>]
EmptyDict == [k |-> "empty", p |-> <<>>]

NodeAt(s, p) ==
    IF p \in DOMAIN s THEN [k |-> "scalar", p |-> p]
    ELSE IF \E q \in DOMAIN s : IsPrefix(p, q) THEN [k |-> "dict", p |-> p]
    ELSE NoneRef

\* FirebaseClient.get_value
get_value(s, key) == NodeAt(s, PathOf(key))

\* FirebaseClient.set_value: the leaf replaces whatever was at or below the
\* path, and a scalar on the way to it gives way to the new branch
set_value(s, key, value) ==
    LET p == PathOf(key)
        keep == {q \in DOMAIN s : ~IsPrefix(p, q) /\ ~IsPrefix(q, p)}
    IN  [q \in keep \cup {p} |-> IF q = p THEN value ELSE s[q]]

\* bool(node)
RefTruthy(s, r) ==
    CASE r.k = "dict" -> TRUE
      [] r.k = "scalar" -> Truthy(s[r.p])
      [] OTHER -> FALSE

\* node or {}
OrEmpty(s, r) == IF RefTruthy(s, r) THEN r ELSE EmptyDict

\* isinstance(node, dict)
IsDict(r) == r.k \in {"dict", "empty"}

\* the keys of a dict node
KeysOf(s, r) ==
    IF r.k = "dict"
    THEN {q[Len(r.p) + 1] : q \in {x \in DOMAIN s : IsPrefix(r.p, x) /\ Len(x) > Len(r.p)}}
    ELSE {}

\* dict.get(key) on a dict node
DictGet(s, r, key) ==
    IF r.k = "dict" /\ key \in KeysOf(s, r) THEN NodeAt(s, r.p \o <<key>>) ELSE NoneRef

\* the scalar a reference holds
ScalarOf(s, r) == s[r.p]

----------------------------------------------------------------------------
(* datetime *)

\* datetime.min
DatetimeMin == <<1, 1, 1, 0, 0, 0>>

IsLeap(y) == (y % 4 = 0 /\ y % 100 # 0) \/ y % 400 = 0

DaysInMonth(y, m) ==
    CASE m \in {4, 6, 9, 11} -> 30
      [] m = 2 -> IF IsLeap(y) THEN 29 ELSE 28
      [] OTHER -> 31

\* a run of decimal digits of length lo..hi
IsNumField(s, lo, hi) ==
    Len(s) >= lo /\ Len(s) <= hi /\ \A i \in 1..Len(s) : IsDecimalChar(s[i])

\* the datetime constructor's range check
ValidDatetime(dt) ==
    /\ dt[1] >= 1 /\ dt[1] <= 9999
    /\ dt[2] >= 1 /\ dt[2] <= 12
    /\ dt[3] >= 1 /\ dt[3] <= DaysInMonth(dt[1], dt[2])
    /\ dt[4] >= 0 /\ dt[4] <= 23
    /\ dt[5] >= 0 /\ dt[5] <= 59
    /\ dt[6] >= 0 /\ dt[6] <= 59

\* datetime.strptime(value, "%d/%m/%Y %H:%M:%S"); DatetimeMin stands for the
\* ValueError the caller turns into datetime.min
StrptimeDatetime(value) ==
    LET bySlash == SplitOn(value, "/")
        bySpace == IF Len(bySlash) = 3 THEN SplitOn(bySlash[3], " ") ELSE <<>>
        byColon == IF Len(bySpace) = 2 THEN SplitOn(bySpace[2], ":") ELSE <<>>
        shaped ==
            /\ Len(bySlash) = 3 /\ Len(bySpace) = 2 /\ Len(byColon) = 3
            /\ IsNumField(bySlash[1], 1, 2) /\ IsNumField(bySlash[2], 1, 2)
            /\ IsNumField(bySpace[1], 4, 4)
            /\ IsNumField(byColon[1], 1, 2) /\ IsNumField(byColon[2], 1, 2)
            /\ IsNumField(byColon[3], 1, 2)
        dt == <<IntOf(bySpace[1]), IntOf(bySlash[2]), IntOf(bySlash[1]),
                IntOf(byColon[1]), IntOf(byColon[2]), IntOf(byColon[3])>>
    IN  IF shaped /\ ValidDatetime(dt) THEN dt ELSE DatetimeMin

RECURSIVE ZeroPad(_, _)
ZeroPad(s, width) == IF Len(s) >= width THEN s ELSE ZeroPad(<<"0">> \o s, width)

\* dt.strftime("%Y-%m-%d"); the C library decides whether a year below 1000
\* is zero-padded
StrftimeDate(dt) ==
    (IF strftime_pads_year THEN ZeroPad(DecStr(dt[1]), 4) ELSE DecStr(dt[1])) \o <<"-">> \o ZeroPad(DecStr(dt[2]), 2)
        \o <<"-">> \o ZeroPad(DecStr(dt[3]), 2)

\* datetime.strptime(date_key, "%Y-%m-%d").date(), or <<>> on ValueError
StrptimeDate(date_key) ==
    LET parts == SplitOn(date_key, "-")
        shaped ==
            /\ Len(parts) = 3
            /\ IsNumField(parts[1], 4, 4)
            /\ IsNumField(parts[2], 1, 2) /\ IsNumField(parts[3], 1, 2)
        d == <<IntOf(parts[1]), IntOf(parts[2]), IntOf(parts[3])>>
    IN  IF shaped /\ ValidDatetime(<<d[1], d[2], d[3], 0, 0, 0>>) THEN d ELSE <<>>

RECURSIVE TupleLess(_, _)
\* a < b for tuples of integers of one length
TupleLess(a, b) ==
    IF a = <<>> \/ b = <<>> THEN FALSE
    ELSE IF Head(a) # Head(b) THEN Head(a) < Head(b)
    ELSE TupleLess(Tail(a), Tail(b))

RECURSIVE InsertDesc(_, _)
\* x goes after every element whose key is not less than its own
InsertDesc(sorted, x) ==
    IF sorted = <<>> THEN <<x>>
    ELSE IF TupleLess(Head(sorted).key, x.key) THEN <<x>> \o sorted
    ELSE <<Head(sorted)>> \o InsertDesc(Tail(sorted), x)

RECURSIVE SortedDesc(_)
\* sorted(items, key=..., reverse=True): descending, equal keys keep their order
SortedDesc(items) ==
    IF items = <<>> THEN <<>>
    ELSE InsertDesc(SortedDesc(SubSeq(items, 1, Len(items) - 1)), items[Len(items)])

----------------------------------------------------------------------------
(* Keys, literals and screens *)

K(name) == <<name>>

\* the root keys k01, k02, ... of the stores the flat list is run on
MaxListKeys == 52
ListKey(i) == <<"k">> \o ZeroPad(DecStr(i), 2)

\* dict iteration order: Firebase returns the children of a node ordered by key
KeyOrder ==
    <<K("A1"), K("A2"), K("D1"), K("D2"), K("D3"), K("aplikasi"), K("flash")>>
    \o [i \in 1..MaxListKeys |-> ListKey(i)]
    \o <<K("keterangan"), K("kiosk_mode_pin"), K("nama_perangkat"), K("perangkat"),
         K("persen_baterai"), K("pesan_clear_virus"), K("status_baterai"),
         K("suara"), K("utama"), K("waktu"), K("waktu_start")>>

\* list(node.items()): the keys of a dict node in iteration order
Items(s, r) == SelectSeq(KeyOrder, LAMBDA k : k \in KeysOf(s, r))

\* str(node) of a node that is not None
StrOfRef(s, r) == IF r.k = "scalar" THEN ToStr(ScalarOf(s, r)) ELSE <<"{...}">>

\* f"{key}/..." path strings
Slash(a, b) == a \o <<"/">> \o b

Colon(a, b) == a \o <<":">> \o b

Button(label, data) == [label |-> label, data |-> data]

\* a rendered screen; fault is "none"
Screen(text, keyboard) == [fault |-> "none", text |-> text, keyboard |-> keyboard]

\* an exception of the handler's own code (AttributeError, UnboundLocalError,
\* ValueError) leaves the handler: nothing is rendered
Fault == [fault |-> "error", text |-> <<>>, keyboard |-> <<>>]

\* the exception of a failed Firebase write leaves the handler
StoreFault == [fault |-> "store", text |-> <<>>, keyboard |-> <<>>]

\* the handler returned without sending anything
Silent == [fault |-> "none", text |-> <<>>, keyboard |-> <<>>]

RECURSIVE JoinLines(_)
\* "\n".join(lines)
JoinLines(lines) ==
    IF lines = <<>> THEN <<>>
    ELSE IF Len(lines) = 1 THEN lines[1]
    ELSE lines[1] \o <<"\n">> \o JoinLines(Tail(lines))

\* the dashboard's keyboard (lines 304-315, 378-389, 648-659, 668-679)
DashboardKeyboard ==
    << <<Button(<<"Refresh">>, <<"dashboard_refresh">>),
         Button(<<"Lihat semua">>, <<"dashboard_list">>)>>,
       <<Button(<<"Aplikasi">>, <<"dashboard_apps">>)>>,
       <<Button(<<"Panduan tambah data">>, <<"dashboard_help_set">>)>> >>

\* app_data = get_value(app_key) or {}; devices = (app_data.get("perangkat")
\* or {}) if isinstance(app_data, dict) else {}  (lines 108-109, 488-489,
\* 607-608, 625-626)
DevicesOf(s, app_key) ==
    LET app_data == OrEmpty(s, get_value(s, app_key))
    IN  IF IsDict(app_data) THEN OrEmpty(s, DictGet(s, app_data, K("perangkat")))
        ELSE EmptyDict

\* _build_device_detail_view(firebase_client, app_key, device_id)
DeviceDetailView(s, app_key, device_id) ==
    LET devices == DevicesOf(s, app_key)
        device_data == OrEmpty(s, DictGet(s, devices, device_id))
        field(name) == DictGet(s, device_data, K(name))
        optLine(label, name, shown) ==
            IF shown THEN << <<label>> \o StrOfRef(s, field(name)) >> ELSE <<>>
        waktu == IF RefTruthy(s, field("waktu")) THEN field("waktu") ELSE field("waktu_start")
        lines ==
            << <<"Perangkat: ">> \o device_id >>
            \o (IF IsDict(device_data)
                THEN optLine("Nama: ", "nama_perangkat", RefTruthy(s, field("nama_perangkat")))
                     \o optLine("Baterai: ", "persen_baterai", field("persen_baterai").k # "none")
                     \o optLine("Status baterai: ", "status_baterai",
                                RefTruthy(s, field("status_baterai")))
                     \o (IF RefTruthy(s, waktu)
                         THEN << <<"Waktu: ">> \o StrOfRef(s, waktu) >> ELSE <<>>)
                ELSE <<>>)
            \o << <<>>, <<"Pilih menu di bawah:">> >>
        found == RefTruthy(s, device_data)
        text ==
            IF found THEN JoinLines(lines)
            ELSE <<"Data perangkat '">> \o device_id \o <<"' untuk aplikasi '">>
                 \o app_key \o <<"' tidak ditemukan.">>
        suara_label ==
            IF found /\ RefTruthy(s, field("suara")) THEN StrOfRef(s, field("suara"))
            ELSE <<"off">>
        flash_label ==
            IF found /\ RefTruthy(s, field("flash")) THEN StrOfRef(s, field("flash"))
            ELSE <<"-">>
        target == Colon(app_key, device_id)
        keyboard ==
            << <<Button(<<"Kirim pesan">>, Colon(<<"dashboard_msg">>, target))>>,
               <<Button(<<"Suara: ">> \o suara_label, Colon(<<"dashboard_sound">>, target)),
                 Button(<<"Flash: ">> \o flash_label, Colon(<<"dashboard_flash">>, target))>>,
               <<Button(<<"Kembali ke daftar perangkat">>,
                        Colon(<<"dashboard_devices">>, app_key))>>,
               <<Button(<<"Kembali ke dashboard">>, <<"dashboard_refresh">>)>> >>
    IN  \* devices.get on a str (line 110), device_data.get on a str (line 133)
        IF devices.k = "scalar" \/ device_data.k = "scalar" THEN Fault
        ELSE Screen(text, keyboard)

----------------------------------------------------------------------------
(* dashboard_callback: parsing and the read-only screens *)

RECURSIVE SplitMax(_, _, _)
\* str.split(sep, maxsplit)
SplitMax(s, sep, maxsplit) ==
    IF maxsplit = 0 \/ \A i \in 1..Len(s) : s[i] # sep THEN <<s>>
    ELSE LET i == CHOOSE k \in 1..Len(s) : s[k] = sep /\ \A j \in 1..(k - 1) : s[j] # sep
         IN  <<SubSeq(s, 1, i - 1)>> \o SplitMax(SubSeq(s, i + 1, Len(s)), sep, maxsplit - 1)

\* query.data.startswith(prefix + ":")
StartsWith(data, prefix) == IsPrefix(<<prefix, ":">>, data)

\* query.data.split(":", 1)[1]
AppKeyOf(data) == SplitMax(data, ":", 1)[2]

\* the (app_key, second) pair of the cases that split(":", 2): both are ""
\* unless there are three parts
PairOf(data) ==
    LET parts == SplitMax(data, ":", 2)
    IN  IF Len(parts) = 3 THEN <<parts[2], parts[3]>> ELSE << <<>>, <<>> >>

\* the devices case keeps the app key of a two-part token (lines 481-487)
DevicesArgsOf(data) ==
    LET parts == SplitMax(data, ":", 2)
    IN  IF Len(parts) = 3 THEN <<parts[2], parts[3]>>
        ELSE <<IF Len(parts) > 1 THEN parts[2] ELSE <<>>, <<>> >>

RECURSIVE TakeChars(_, _)
\* value[:n]; a lexeme is kept whole, long values are written one character
\* per lexeme
TakeChars(s, n) ==
    IF s = <<>> \/ Len(Head(s)) > n THEN <<>>
    ELSE <<Head(s)>> \o TakeChars(Tail(s), n - Len(Head(s)))

PreviewItems == 5
PreviewValueCap == 80
PreviewCap == 1000
DescPreviewCap == 300

\* value_repr of one root entry (lines 337-342, 359-364)
ValueRepr(s, r, cap) ==
    IF r.k = "dict" THEN <<"[object] ">> \o DecStr(Cardinality(KeysOf(s, r))) \o <<" item">>
    ELSE LET text == StrOfRef(s, r)
         IN  IF StrLen(text) > cap THEN TakeChars(text, cap) \o <<"...">> ELSE text

\* firebase_client.list_keys(): the root, {} when there is nothing
list_keys(s) == OrEmpty(s, NodeAt(s, <<>>))

\* preview_text (lines 333-348)
PreviewText(s) ==
    LET data == list_keys(s)
        items == Items(s, data)
        shown == SubSeq(items, 1, IF Len(items) < PreviewItems THEN Len(items) ELSE PreviewItems)
        line(k) == k \o <<" = ">> \o ValueRepr(s, DictGet(s, data, k), PreviewValueCap)
        joined == JoinLines([i \in 1..Len(shown) |-> line(shown[i])])
    IN  IF shown = <<>> THEN <<"Belum ada data yang tersimpan.">>
        ELSE IF StrLen(joined) > PreviewCap THEN TakeChars(joined, PreviewCap) \o <<"...">>
        ELSE joined

\* the default branch (lines 660-679)
DashboardView(s) ==
    Screen(<<"Dashboard Owner", "\n", "Total data tersimpan: ">>
               \o DecStr(Cardinality(KeysOf(s, list_keys(s))))
               \o <<"\n", "\n", "Cuplikan data:", "\n">> \o PreviewText(s)
               \o <<"\n", "\n", "Pilih aksi di bawah:">>,
           DashboardKeyboard)

\* dashboard_list (lines 349-373) assigns text only: building the markup from
\* the unassigned keyboard at line 680 raises UnboundLocalError
ListView(s) == Fault

ListMaxItems == 50
ListValueCap == 100
ListCap == 3500

RECURSIVE ListLines(_, _, _, _)
\* lines.append(line), or break where the line does not fit (lines 260-263,
\* 366-369)
ListAppend(s, data, rest, current_length, line) ==
    IF current_length + StrLen(line) + 1 > ListCap THEN <<>>
    ELSE <<line>> \o ListLines(s, data, rest, current_length + StrLen(line) + 1)

\* for key, value in shown_items (lines 252-263, 358-369)
ListLines(s, data, shown_items, current_length) ==
    IF shown_items = <<>> THEN <<>>
    ELSE ListAppend(s, data, Tail(shown_items), current_length,
                    Head(shown_items) \o <<" = ">>
                        \o ValueRepr(s, DictGet(s, data, Head(shown_items)), ListValueCap))

\* the trailer appended where len(items) > len(lines) (lines 264-266, 370-372)
ListTrailer(items, lines) ==
    IF Len(items) > Len(lines)
    THEN lines \o << <<"... dan ">> \o DecStr(Len(items) - Len(lines))
                     \o <<" key lainnya. Gunakan /get <key> untuk melihat detail.">> >>
    ELSE lines

\* the lines of the flat list (lines 247-266, 353-372)
ListBody(s, data, items) ==
    ListTrailer(items,
                ListLines(s, data,
                          SubSeq(items, 1, IF Len(items) < ListMaxItems THEN Len(items)
                                           ELSE ListMaxItems), 0))

\* the reply of /list to the owner (lines 242-267)
list_command(s) ==
    IF list_keys(s).k = "scalar" THEN Fault   \* data.items() on a scalar root
    ELSE IF ~RefTruthy(s, list_keys(s)) THEN Screen(<<"Tidak ada data di Firebase">>, <<>>)
    ELSE Screen(JoinLines(ListBody(s, list_keys(s), Items(s, list_keys(s)))), <<>>)

NoPermission == Screen(<<"Anda tidak memiliki izin menggunakan perintah ini.">>, <<>>)

\* dashboard_help_set (lines 640-659)
HelpSetView ==
    Screen(<<"Panduan tambah data:", "\n", "/set <key> <value>">>, DashboardKeyboard)

BackToDashboard(label) == <<Button(<<label>>, <<"dashboard_refresh">>)>>

\* dashboard_apps (lines 374-402)
AppsView(s) ==
    LET aplikasi_node == OrEmpty(s, get_value(s, K("aplikasi")))
        items == Items(s, aplikasi_node)
        label(k) == StrOfRef(s, DictGet(s, aplikasi_node, k))
        buttons ==
            [i \in 1..Len(items) |->
                <<Button(label(items[i]), Colon(<<"dashboard_app">>, label(items[i])))>>]
    IN  IF aplikasi_node.k = "empty"
        THEN Screen(<<"Tidak ada data 'aplikasi' di Firebase.">>, DashboardKeyboard)
        ELSE IF aplikasi_node.k = "scalar" THEN Fault   \* str has no items()
        ELSE Screen(<<"Pilih aplikasi:">>,
                    buttons \o <<BackToDashboard("Kembali ke dashboard")>>)

\* the application menu (lines 417-434, 723-740)
AppMenu(app_key) ==
    Screen(<<"Aplikasi: ">> \o app_key \o <<"\n", "Pilih menu di bawah:">>,
           << <<Button(<<"Perangkat">>, Colon(<<"dashboard_devices">>, app_key))>>,
              <<Button(<<"Ubah keterangan">>, Colon(<<"dashboard_app_edit_desc">>, app_key))>>,
              <<Button(<<"Ubah PIN aplikasi">>, Colon(<<"dashboard_app_edit_pin">>, app_key))>>,
              <<Button(<<"Kembali ke daftar aplikasi">>, <<"dashboard_apps">>)>>,
              BackToDashboard("Kembali ke dashboard") >>)

\* a faulty application case, which fails on an application that is not stored
AppViewFaultsOnAbsent(s, app_key) ==
    IF RefTruthy(s, get_value(s, app_key)) THEN AppMenu(app_key) ELSE Fault

\* dashboard_app:<app_key> (lines 403-434)
AppView(s, app_key) ==
    IF RefTruthy(s, get_value(s, app_key)) THEN AppMenu(app_key)
    ELSE Screen(<<"Data aplikasi '">> \o app_key \o <<"' tidak ditemukan di Firebase.">>,
                << <<Button(<<"Kembali ke daftar aplikasi">>, <<"dashboard_apps">>)>>,
                   BackToDashboard("Kembali ke dashboard") >>)

\* the keyboard of the two edit prompts (lines 451-455, 474-478)
CancelKeyboard(app_key) ==
    << <<Button(<<"Batalkan">>, Colon(<<"dashboard_app">>, app_key))>> >>

\* the prompt of dashboard_app_edit_desc (lines 436-456)
EditDescView(s, app_key) ==
    LET app_data == OrEmpty(s, get_value(s, app_key))
        desc == IF IsDict(app_data) THEN DictGet(s, app_data, K("keterangan")) ELSE NoneRef
        current_desc == IF RefTruthy(s, desc) THEN StrOfRef(s, desc) ELSE <<>>
        preview ==
            IF StrLen(current_desc) > DescPreviewCap
            THEN TakeChars(current_desc, DescPreviewCap) \o <<"...">> ELSE current_desc
    IN  Screen(<<"Ubah keterangan aplikasi: ">> \o app_key
                   \o <<"\n", "\n", "Keterangan saat ini:", "\n">>
                   \o (IF preview # <<>> THEN preview ELSE <<"(kosong)">>)
                   \o <<"\n", "\n", "Kirim keterangan baru di chat ini.">>,
               CancelKeyboard(app_key))

\* the prompt of dashboard_app_edit_pin (lines 458-479)
EditPinView(s, app_key) ==
    LET app_data == OrEmpty(s, get_value(s, app_key))
        pin == IF IsDict(app_data) THEN DictGet(s, app_data, K("kiosk_mode_pin")) ELSE NoneRef
        pin_text == IF pin.k = "none" THEN <<>> ELSE StrOfRef(s, pin)
    IN  Screen(<<"Ubah PIN aplikasi: ">> \o app_key \o <<"\n", "\n", "PIN saat ini: ">>
                   \o (IF pin_text # <<>> THEN pin_text ELSE <<"(belum diset)">>)
                   \o <<"\n", "\n", "Kirim PIN baru (hanya angka) di chat ini.">>,
               CancelKeyboard(app_key))

\* the prompt of dashboard_msg (lines 586-598)
MsgView(app_key, device_id) ==
    Screen(<<"Kirim pesan baru untuk perangkat: ">> \o device_id \o <<"\n", "aplikasi: ">>
               \o app_key \o <<"\n", "\n", "Kirim teks pesan di chat ini.">>,
           << <<Button(<<"Kembali ke perangkat">>,
                       Colon(<<"dashboard_device">>, Colon(app_key, device_id)))>>,
              BackToDashboard("Kembali ke dashboard") >>)

----------------------------------------------------------------------------
(* dashboard_devices: grouping by date *)

Unknown == <<"unknown">>

\* _parse_device_datetime(data) for a dict node
ParseDeviceDatetime(s, data) ==
    LET waktu == DictGet(s, data, K("waktu"))
        value == IF RefTruthy(s, waktu) THEN waktu ELSE DictGet(s, data, K("waktu_start"))
    IN  IF value.k = "scalar" /\ ScalarOf(s, value).t = "str"
        THEN StrptimeDatetime(ScalarOf(s, value).s)
        ELSE DatetimeMin

\* the (device_id, device_data, dt) entry of one device with its date_key
\* (lines 503-512)
DeviceEntry(s, devices, device_id) ==
    LET device_data == DictGet(s, devices, device_id)
        dt == IF IsDict(device_data) THEN ParseDeviceDatetime(s, device_data) ELSE DatetimeMin
    IN  [device_id |-> device_id, data |-> device_data, dt |-> dt,
         date_key |-> IF dt = DatetimeMin THEN Unknown ELSE StrftimeDate(dt)]

\* every entry, in the iteration order of devices.items()
DeviceEntries(s, devices) ==
    LET ids == Items(s, devices)
    IN  [i \in 1..Len(ids) |-> DeviceEntry(s, devices, ids[i])]

RECURSIVE FirstSeen(_)
\* date_groups.keys(): the date keys in order of first insertion
FirstSeen(keys) ==
    IF keys = <<>> THEN <<>>
    ELSE LET before == FirstSeen(SubSeq(keys, 1, Len(keys) - 1))
             last == keys[Len(keys)]
         IN  IF \E i \in 1..Len(before) : before[i] = last THEN before ELSE before \o <<last>>

\* _date_sort_key(date_key)
DateSortKey(date_key) ==
    LET d == StrptimeDate(date_key)
    IN  IF date_key = Unknown \/ d = <<>> THEN <<1, 1, 1, 1>> ELSE d \o <<0>>

\* sorted(date_groups.keys(), key=_date_sort_key, reverse=True)
SortedDates(entries) ==
    LET keys == FirstSeen([i \in 1..Len(entries) |-> entries[i].date_key])
        sorted == SortedDesc([i \in 1..Len(keys) |-> [key |-> DateSortKey(keys[i]), item |-> keys[i]]])
    IN  [i \in 1..Len(sorted) |-> sorted[i].item]

\* lines 522-523
SelectedDate(entries, selected_date) ==
    IF selected_date = <<>> \/ \A i \in 1..Len(entries) : entries[i].date_key # selected_date
    THEN SortedDates(entries)[1]
    ELSE selected_date

\* a faulty ordering, which lists the group as it was collected
GroupUnsorted(entries, selected_date) ==
    SelectSeq(entries, LAMBDA e : e.date_key = selected_date)

\* sorted(date_groups[selected_date], key=lambda item: item[2], reverse=True)
GroupSorted(entries, selected_date) ==
    LET group == SelectSeq(entries, LAMBDA e : e.date_key = selected_date)
        sorted == SortedDesc([i \in 1..Len(group) |-> [key |-> group[i].dt, item |-> group[i]]])
    IN  [i \in 1..Len(sorted) |-> sorted[i].item]

IndexOf(seq, x) == CHOOSE i \in 1..Len(seq) : seq[i] = x

DevicesBackKeyboard(app_key) ==
    << <<Button(<<"Kembali ke aplikasi">>, Colon(<<"dashboard_app">>, app_key))>>,
       BackToDashboard("Kembali ke dashboard") >>

\* the text of the device list of one date (lines 534-538)
DevicesText(app_key, date_key) ==
    <<"Perangkat aplikasi: ">> \o app_key \o <<"\n", "Tanggal: ">>
        \o (IF date_key = Unknown THEN <<"Tanggal tidak diketahui">> ELSE date_key)
        \o <<"\n", "Pilih perangkat:">>

\* the button of one device (lines 527-533)
DeviceButton(s, app_key, e) ==
    LET name == DictGet(s, e.data, K("nama_perangkat"))
        label == IF ~IsDict(e.data) THEN StrOfRef(s, e.data)
                 ELSE IF RefTruthy(s, name) THEN StrOfRef(s, name)
                 ELSE e.device_id
    IN  Button(label, Colon(<<"dashboard_device">>, Colon(app_key, e.device_id)))

\* the buttons to the neighbouring dates (lines 539-559)
PaginationRow(app_key, sorted_dates, idx) ==
    (IF idx + 1 <= Len(sorted_dates)
     THEN <<Button(<<"Hari sebelumnya">>,
                   Colon(<<"dashboard_devices">>, Colon(app_key, sorted_dates[idx + 1])))>>
     ELSE <<>>)
    \o (IF idx - 1 >= 1
        THEN <<Button(<<"Hari berikutnya">>,
                      Colon(<<"dashboard_devices">>, Colon(app_key, sorted_dates[idx - 1])))>>
        ELSE <<>>)

\* the screen of one date with its devices, latest first (lines 524-567)
DevicesScreen(s, app_key, sorted_dates, selected_date, group_sorted) ==
    LET pagination_row ==
            PaginationRow(app_key, sorted_dates, IndexOf(sorted_dates, selected_date))
    IN  Screen(DevicesText(app_key, selected_date),
               [i \in 1..Len(group_sorted) |-> <<DeviceButton(s, app_key, group_sorted[i])>>]
                   \o (IF pagination_row # <<>> THEN <<pagination_row>> ELSE <<>>)
                   \o DevicesBackKeyboard(app_key))

\* lines 501-567 for the entries of a non-empty perangkat node
DevicesGrouped(s, app_key, entries, selected_date) ==
    DevicesScreen(s, app_key, SortedDates(entries), selected_date,
                  GroupSorted(entries, selected_date))

\* dashboard_devices:<app_key>[:<selected_date>] (lines 480-567)
DevicesView(s, app_key, requested) ==
    LET devices == DevicesOf(s, app_key)
    IN  IF devices.k = "empty"
        THEN Screen(<<"Tidak ada data perangkat untuk aplikasi '">> \o app_key \o <<"'.">>,
                    DevicesBackKeyboard(app_key))
        ELSE IF devices.k = "scalar" THEN Fault   \* str has no items()
        ELSE DevicesGrouped(s, app_key, DeviceEntries(s, devices),
                            SelectedDate(DeviceEntries(s, devices), requested))

----------------------------------------------------------------------------
(* dashboard_callback: the cases that arm or write *)

NoDeviceTarget == [armed |-> FALSE, app_key |-> <<>>, device_id |-> <<>>]
NoAppTarget == [armed |-> FALSE, app_key |-> <<>>, field |-> <<>>]

DeviceTarget(app_key, device_id) ==
    [armed |-> TRUE, app_key |-> app_key, device_id |-> device_id]
AppTarget(app_key, field) == [armed |-> TRUE, app_key |-> app_key, field |-> field]

\* what a handler run leaves: the screen, the store, the two user_data slots
Result(screen, s, dmt, aet) ==
    [out |-> screen, store |-> s, device_message_target |-> dmt, app_edit_target |-> aet]

\* f"{app_key}/perangkat/{device_id}/{field}"
DeviceFieldKey(app_key, device_id, field) ==
    Slash(app_key, Slash(K("perangkat"), Slash(device_id, K(field))))

\* str(device_data.get(field) or "off").lower() if isinstance(device_data, dict)
\* else "off"  (lines 609-610, 627-628)
CurrentSetting(s, app_key, device_id, field) ==
    LET device_data == OrEmpty(s, DictGet(s, DevicesOf(s, app_key), device_id))
        value == DictGet(s, device_data, K(field))
    IN  IF IsDict(device_data) /\ RefTruthy(s, value) THEN Lower(StrOfRef(s, value))
        ELSE <<"off">>

\* a faulty toggle, which writes on whatever the field holds
SoundNewValueAlwaysOn(current) == <<"on">>

\* line 611
SoundNewValue(current) == IF current = <<"on">> THEN <<"off">> ELSE <<"on">>

\* a faulty cycle, which skips kedip
FlashNewValueTwoState(current) == IF current = <<"on">> THEN <<"off">> ELSE <<"on">>

\* lines 629-634
FlashNewValue(current) ==
    IF current = <<"kedip">> THEN <<"on">>
    ELSE IF current = <<"on">> THEN <<"off">>
    ELSE <<"kedip">>

\* the store after the write of a sound press (line 612)
SoundWrite(s, app_key, device_id) ==
    set_value(s, DeviceFieldKey(app_key, device_id, "suara"),
              Str(SoundNewValue(CurrentSetting(s, app_key, device_id, "suara"))))

\* the store after the write of a flash press (line 635)
FlashWrite(s, app_key, device_id) ==
    set_value(s, DeviceFieldKey(app_key, device_id, "flash"),
              Str(FlashNewValue(CurrentSetting(s, app_key, device_id, "flash"))))

\* a faulty toggle case, which renders the device as it was before the write
ToggleCaseStaleView(s, dmt, aet, app_key, device_id, written, write_ok) ==
    IF DevicesOf(s, app_key).k = "scalar" THEN Result(Fault, s, dmt, aet)
    ELSE IF ~write_ok THEN Result(StoreFault, s, dmt, aet)
    ELSE Result(DeviceDetailView(s, app_key, device_id), written, dmt, aet)

\* dashboard_sound / dashboard_flash (lines 599-639): read, write, re-render
ToggleCase(s, dmt, aet, app_key, device_id, written, write_ok) ==
    IF DevicesOf(s, app_key).k = "scalar"   \* devices.get on a str
    THEN Result(Fault, s, dmt, aet)
    ELSE IF ~write_ok THEN Result(StoreFault, s, dmt, aet)
    ELSE Result(DeviceDetailView(written, app_key, device_id), written, dmt, aet)

\* a faulty arming case, which blanks the description it is about to edit
EditDescCaseClearsField(s, dmt, aet, app_key) ==
    Result(EditDescView(s, app_key), set_value(s, Slash(app_key, K("keterangan")), Str(<<>>)),
           dmt, AppTarget(app_key, K("keterangan")))

\* dashboard_app_edit_desc (lines 435-456)
EditDescCase(s, dmt, aet, app_key) ==
    Result(EditDescView(s, app_key), s, dmt, AppTarget(app_key, K("keterangan")))

\* dashboard_app_edit_pin (lines 457-479)
EditPinCase(s, dmt, aet, app_key) ==
    Result(EditPinView(s, app_key), s, dmt, AppTarget(app_key, K("kiosk_mode_pin")))

\* dashboard_msg (lines 577-598)
MsgCase(s, dmt, aet, app_key, device_id) ==
    Result(MsgView(app_key, device_id), s, DeviceTarget(app_key, device_id), aet)

AccessDenied == Screen(<<"Dashboard hanya bisa diakses oleh owner bot.">>, <<>>)

\* dashboard_callback for the owner (lines 330-681)
dashboard_callback(s, dmt, aet, data, write_ok) ==
    LET pair == PairOf(data)
    IN  CASE data = <<"dashboard_list">> -> Result(ListView(s), s, dmt, aet)
          [] data = <<"dashboard_apps">> -> Result(AppsView(s), s, dmt, aet)
          [] StartsWith(data, "dashboard_app") ->
                Result(AppView(s, AppKeyOf(data)), s, dmt, aet)
          [] StartsWith(data, "dashboard_app_edit_desc") ->
                EditDescCase(s, dmt, aet, AppKeyOf(data))
          [] StartsWith(data, "dashboard_app_edit_pin") ->
                EditPinCase(s, dmt, aet, AppKeyOf(data))
          [] StartsWith(data, "dashboard_devices") ->
                Result(DevicesView(s, DevicesArgsOf(data)[1], DevicesArgsOf(data)[2]),
                       s, dmt, aet)
          [] StartsWith(data, "dashboard_device") ->
                Result(DeviceDetailView(s, pair[1], pair[2]), s, dmt, aet)
          [] StartsWith(data, "dashboard_msg") -> MsgCase(s, dmt, aet, pair[1], pair[2])
          [] StartsWith(data, "dashboard_sound") ->
                ToggleCase(s, dmt, aet, pair[1], pair[2],
                           SoundWrite(s, pair[1], pair[2]), write_ok)
          [] StartsWith(data, "dashboard_flash") ->
                ToggleCase(s, dmt, aet, pair[1], pair[2],
                           FlashWrite(s, pair[1], pair[2]), write_ok)
          [] data = <<"dashboard_help_set">> -> Result(HelpSetView, s, dmt, aet)
          [] OTHER -> Result(DashboardView(s), s, dmt, aet)

----------------------------------------------------------------------------
(* device_message_handler *)

PinError == Screen(<<"PIN harus berupa angka.">>, <<>>)

\* a faulty fall-through, which stores and echoes a text nobody asked for
NothingArmedEchoes(s, dmt, aet, text) ==
    Result(Screen(text, <<>>), set_value(s, K("last_text"), Str(text)), dmt, aet)

\* neither slot is set: both ifs are skipped and the handler ends (lines 695,
\* 706, 741)
NothingArmed(s, dmt, aet, text) == Result(Silent, s, dmt, aet)

\* a faulty device_target branch, which forgets the target before it writes
CommitDeviceMessagePopsFirst(s, dmt, aet, text, write_ok) ==
    IF dmt.app_key = <<>> \/ dmt.device_id = <<>> THEN Result(Silent, s, dmt, aet)
    ELSE IF ~write_ok THEN Result(StoreFault, s, NoDeviceTarget, aet)
    ELSE Result(DeviceDetailView(set_value(s, DeviceFieldKey(dmt.app_key, dmt.device_id,
                                                            "pesan_clear_virus"),
                                           Str(text)),
                                 dmt.app_key, dmt.device_id),
                set_value(s, DeviceFieldKey(dmt.app_key, dmt.device_id, "pesan_clear_virus"),
                          Str(text)),
                NoDeviceTarget, aet)

\* the device_target branch (lines 695-705)
CommitDeviceMessage(s, dmt, aet, text, write_ok) ==
    LET written ==
            set_value(s, DeviceFieldKey(dmt.app_key, dmt.device_id, "pesan_clear_virus"),
                      Str(text))
    IN  IF dmt.app_key = <<>> \/ dmt.device_id = <<>> THEN Result(Silent, s, dmt, aet)
        ELSE IF ~write_ok THEN Result(StoreFault, s, dmt, aet)
        ELSE Result(DeviceDetailView(written, dmt.app_key, dmt.device_id), written,
                    NoDeviceTarget, aet)

\* the app_target branch (lines 706-741)
CommitAppField(s, dmt, aet, text, write_ok) ==
    LET pin_text == Strip(text)
        written ==
            IF aet.field = K("keterangan")
            THEN set_value(s, Slash(aet.app_key, K("keterangan")), Str(text))
            ELSE set_value(s, Slash(aet.app_key, K("kiosk_mode_pin")), Num(IntOf(pin_text)))
    IN  IF aet.app_key = <<>> \/ aet.field = <<>> THEN Result(Silent, s, dmt, aet)
        ELSE IF aet.field \notin {K("keterangan"), K("kiosk_mode_pin")}
        THEN Result(Silent, s, dmt, aet)
        ELSE IF aet.field = K("kiosk_mode_pin") /\ ~IsDigit(pin_text)
        THEN Result(PinError, s, dmt, aet)
        ELSE IF aet.field = K("kiosk_mode_pin") /\ ~IntParses(pin_text)
        THEN Result(Fault, s, dmt, aet)   \* int() raises ValueError
        ELSE IF ~write_ok THEN Result(StoreFault, s, dmt, aet)
        ELSE Result(AppMenu(aet.app_key), written, dmt, NoAppTarget)

\* device_message_handler for the owner (lines 691-741)
device_message_handler(s, dmt, aet, text, write_ok) ==
    IF dmt.armed THEN CommitDeviceMessage(s, dmt, aet, text, write_ok)
    ELSE IF aet.armed THEN CommitAppField(s, dmt, aet, text, write_ok)
    ELSE NothingArmed(s, dmt, aet, text)

----------------------------------------------------------------------------
(* The updates the bot receives *)

\* bot_data["owner_id"] and the senders of updates; "none" is an update
\* without effective_user
Owner == "owner"
Senders == {"owner", "stranger", "none"}

\* a faulty owner test, which lets every identified sender in
AuthorizedAnyUser(user) == user # "none"

\* the negation of "not user or user.id != owner_id" (lines 327, 689)
Authorized(user) == user # "none" /\ user = Owner

T(a, b) == <<K(a), K(b)>>

Waktu1 == <<"0", "1", "/", "0", "6", "/", "2", "0", "2", "4", " ",
            "1", "0", ":", "0", "0", ":", "0", "0">>
Waktu2 == <<"0", "1", "/", "0", "6", "/", "2", "0", "2", "4", " ",
            "0", "9", ":", "0", "0", ":", "0", "0">>
Waktu3 == <<"3", "1", "/", "0", "5", "/", "2", "0", "2", "4", " ",
            "2", "3", ":", "5", "9", ":", "5", "9">>
WaktuYearOne == <<"0", "1", "/", "0", "1", "/", "0", "0", "0", "1", " ",
                  "1", "0", ":", "0", "0", ":", "0", "0">>
Date1 == <<"2", "0", "2", "4", "-", "0", "6", "-", "0", "1">>
Date3 == <<"2", "0", "2", "4", "-", "0", "5", "-", "3", "1">>
Date9 == <<"2", "0", "2", "3", "-", "0", "1", "-", "0", "1">>

\* a tree from its leaves, each a <<path, scalar>> pair
Tree(leaves) ==
    [p \in {l[1] : l \in leaves} |-> (CHOOSE l \in leaves : l[1] = p)[2]]

A1Path(rest) == <<K("A1")>> \o rest
Dev(d, field) == A1Path(<<K("perangkat"), K(d), K(field)>>)

\* the scenario of two devices on one day
StoreSameDay ==
    Tree({ <<Dev("D1", "waktu"), Str(Waktu1)>>,
           <<Dev("D2", "waktu"), Str(Waktu2)>>,
           <<A1Path(<<K("keterangan")>>), Str(<<"toko">>)>>,
           <<T("aplikasi", "utama"), Str(K("A1"))>> })

\* three date buckets, one of them unknown; a device entry that is a scalar
StoreManyDays ==
    Tree({ <<Dev("D1", "waktu_start"), Str(Waktu3)>>,
           <<Dev("D1", "suara"), Str(<<"ON">>)>>,
           <<Dev("D1", "flash"), Str(<<"KEDIP">>)>>,
           <<Dev("D1", "nama_perangkat"), Str(<<"Pixel">>)>>,
           <<Dev("D2", "waktu"), Str(Waktu1)>>,
           <<Dev("D2", "persen_baterai"), Num(80)>>,
           <<A1Path(<<K("perangkat"), K("D3")>>), Str(<<"x">>)>>,
           <<A1Path(<<K("kiosk_mode_pin")>>), Num(1234)>>,
           <<T("A2", "keterangan"), Str(<<"gudang">>)>> })

\* a device without a timestamp, and a timestamp that does not parse
StoreNoDates ==
    Tree({ <<Dev("D1", "suara"), Str(<<"off">>)>>,
           <<Dev("D1", "flash"), Str(<<"on">>)>>,
           <<Dev("D2", "waktu"), Str(<<"k", "e", "m", "a", "r", "i", "n">>)>> })

\* a device without a timestamp beside one stamped in the year 1
StoreYearOne ==
    Tree({ <<Dev("D1", "suara"), Str(<<"on">>)>>,
           <<Dev("D2", "waktu"), Str(WaktuYearOne)>> })

StoreEmpty == Tree({})

InitStores == {StoreEmpty, StoreSameDay, StoreManyDays, StoreNoDates, StoreYearOne}

Tok(name) == <<"dashboard_" \o name>>
Tok1(name, a) == Colon(Tok(name), a)
Tok2(name, a, b) == Colon(Tok(name), Colon(a, b))

\* callback data the bot may be sent: its own buttons, and tokens that lack
\* a segment or name no case
CallbackData ==
    { Tok("refresh"), Tok("list"), Tok("apps"), Tok("help_set"), Tok("foo"),
      Tok1("app", K("A1")), Tok1("app", K("A9")),
      Tok1("app_edit_desc", K("A1")), Tok1("app_edit_pin", K("A1")),
      Tok1("devices", K("A1")), Tok1("devices", K("A2")),
      Tok2("devices", K("A1"), Date1), Tok2("devices", K("A1"), Date3),
      Tok2("devices", K("A1"), Date9), Tok2("devices", K("A1"), Unknown),
      Tok2("device", K("A1"), K("D1")), Tok2("device", K("A1"), K("D3")),
      Tok1("device", K("A1")),
      Tok2("msg", K("A1"), K("D1")), Tok2("msg", K("A1"), K("D2")), Tok1("msg", K("A1")),
      Tok2("sound", K("A1"), K("D1")), Tok2("sound", K("A1"), K("D3")),
      Tok1("sound", K("A1")), Tok2("flash", K("A1"), K("D1")) }

\* texts the operator may type
Texts ==
    { <<"1", "2", "a">>, <<"0", "0", "4", "2">>, <<" ", "7">>, <<"SUP2">> }

NoEvent == [kind |-> "none", user |-> "none", data |-> <<>>, text |-> <<>>, message |-> FALSE]

\* no toggle run is between its read and its write.  Of a run that is, the
\* record keeps the locals app_key, device_id and current, and the field it
\* is about; done marks a run whose write has returned, replaced is what the
\* field held when that write arrived.
NoRead ==
    [active |-> FALSE, done |-> FALSE, field |-> "", app_key |-> <<>>, device_id |-> <<>>,
     current |-> <<>>, replaced |-> <<>>]

\* whether a Firebase write succeeds is the environment's choice, made only
\* where the handler reaches a write
WriteOutcomes(writes) == IF writes THEN BOOLEAN ELSE {TRUE}

IsToggle(data) == StartsWith(data, "dashboard_sound") \/ StartsWith(data, "dashboard_flash")

Init ==
    /\ store \in InitStores
    /\ strftime_pads_year \in (IF store = StoreYearOne THEN BOOLEAN ELSE {TRUE})
    /\ device_message_target = NoDeviceTarget
    /\ app_edit_target = NoAppTarget
    /\ lastEvent = NoEvent
    /\ out = Silent
    /\ nEvents = 0
    /\ inflight = NoRead

\* the application takes the next update only when the handler of the last
\* one has returned
Polling == lastEvent = NoEvent

\* a callback query reaches dashboard_callback (lines 320-681)
ButtonPressed ==
    \E user \in Senders \ {"none"}, data \in CallbackData :
      \E write_ok \in WriteOutcomes(Authorized(user) /\ IsToggle(data)) :
        LET r == IF ~Authorized(user)
                 THEN Result(AccessDenied, store, device_message_target, app_edit_target)
                 ELSE dashboard_callback(store, device_message_target, app_edit_target,
                                         data, write_ok)
        IN  /\ Polling
            /\ nEvents < MaxEvents
            /\ nEvents' = nEvents + 1
            /\ lastEvent' = [kind |-> "button", user |-> user, data |-> data,
                             text |-> <<>>, message |-> FALSE]
            /\ out' = r.out
            /\ store' = r.store
            /\ device_message_target' = r.device_message_target
            /\ app_edit_target' = r.app_edit_target
            /\ UNCHANGED <<strftime_pads_year, inflight>>

\* a text update reaches device_message_handler (lines 684-741); message is
\* whether update.message is set (it is not for an edited message)
TextMessage ==
    \E user \in Senders, text \in Texts, message \in BOOLEAN :
      \E write_ok \in WriteOutcomes(Authorized(user) /\ message
                                    /\ (device_message_target.armed \/ app_edit_target.armed)) :
        LET r == IF ~message \/ ~Authorized(user)
                 THEN Result(Silent, store, device_message_target, app_edit_target)
                 ELSE device_message_handler(store, device_message_target, app_edit_target,
                                             text, write_ok)
        IN  /\ Polling
            /\ nEvents < MaxEvents
            /\ nEvents' = nEvents + 1
            /\ lastEvent' = [kind |-> "text", user |-> user, data |-> <<>>,
                             text |-> text, message |-> message]
            /\ out' = r.out
            /\ store' = r.store
            /\ device_message_target' = r.device_message_target
            /\ app_edit_target' = r.app_edit_target
            /\ UNCHANGED <<strftime_pads_year, inflight>>

\* the handler has returned: the application goes back to polling
HandlerReturned ==
    /\ ~Polling
    /\ ~inflight.active
    /\ lastEvent' = NoEvent
    /\ out' = Silent
    /\ inflight' = NoRead
    /\ UNCHANGED <<store, device_message_target, app_edit_target, nEvents,
                   strftime_pads_year>>

Next == ButtonPressed \/ TextMessage \/ HandlerReturned

Spec == Init /\ [][Next]_vars

----------------------------------------------------------------------------
(* Stores that hold a scalar where the handlers expect a record *)

\* the perangkat node of A1 is a string
StoreScalarDevices ==
    Tree({ <<A1Path(<<K("perangkat")>>), Str(<<"x">>)>>,
           <<A1Path(<<K("keterangan")>>), Str(<<"toko">>)>> })

\* the application node A1 is a string
StoreScalarApp == Tree({ <<A1Path(<<>>), Str(<<"x">>)>> })

ScalarStores == {StoreScalarDevices, StoreScalarApp, StoreManyDays}

InitScalars ==
    /\ store \in ScalarStores
    /\ strftime_pads_year = TRUE
    /\ device_message_target = NoDeviceTarget
    /\ app_edit_target = NoAppTarget
    /\ lastEvent = NoEvent
    /\ out = Silent
    /\ nEvents = 0
    /\ inflight = NoRead

SpecScalars == InitScalars /\ [][Next]_vars

----------------------------------------------------------------------------
(* The flat list on roots of many keys *)

\* a value of 10 * chunks characters
LongValue(chunks) == [i \in 1..chunks |-> "xxxxxxxxxx"]
ValueChunks == {1, 15}

\* a root of n keys, each holding a string of the same length
ListStore(n, chunks) == Tree({<<<<ListKey(i)>>, Str(LongValue(chunks))>> : i \in 1..n})
ListStores == {ListStore(n, c) : n \in 0..MaxListKeys, c \in ValueChunks}

InitList ==
    /\ store \in ListStores
    /\ strftime_pads_year = TRUE
    /\ device_message_target = NoDeviceTarget
    /\ app_edit_target = NoAppTarget
    /\ lastEvent = NoEvent
    /\ out = Silent
    /\ nEvents = 0
    /\ inflight = NoRead

\* the command /list reaches list_command (lines 234-267)
ListCommand ==
    \E user \in Senders, message \in BOOLEAN :
        /\ Polling
        /\ nEvents < MaxEvents
        /\ nEvents' = nEvents + 1
        /\ lastEvent' = [kind |-> "command", user |-> user, data |-> <<"/list">>,
                         text |-> <<>>, message |-> message]
        /\ out' = IF ~message THEN Silent
                  ELSE IF ~Authorized(user) THEN NoPermission
                  ELSE list_command(store)
        /\ UNCHANGED <<store, device_message_target, app_edit_target, strftime_pads_year,
                       inflight>>

\* the dashboard's button Lihat semua reaches dashboard_callback (lines
\* 320-373, 680-681)
ListPressed ==
    \E user \in Senders \ {"none"} :
        /\ Polling
        /\ nEvents < MaxEvents
        /\ nEvents' = nEvents + 1
        /\ lastEvent' = [kind |-> "button", user |-> user, data |-> Tok("list"),
                         text |-> <<>>, message |-> FALSE]
        /\ out' = IF ~Authorized(user) THEN AccessDenied
                  ELSE dashboard_callback(store, device_message_target, app_edit_target,
                                          Tok("list"), TRUE).out
        /\ UNCHANGED <<store, device_message_target, app_edit_target, strftime_pads_year,
                       inflight>>

NextList == ListCommand \/ ListPressed \/ HandlerReturned

SpecList == InitList /\ [][NextList]_vars

----------------------------------------------------------------------------
(* A toggle press step by step, beside another client of the database *)

\* a faulty choice of the written value, which reads the field again at the
\* time of the write
WrittenValueFresh(s, run) ==
    IF run.field = "suara"
    THEN SoundNewValue(CurrentSetting(s, run.app_key, run.device_id, "suara"))
    ELSE FlashNewValue(CurrentSetting(s, run.app_key, run.device_id, "flash"))

\* new_value, computed from the local current (lines 611, 629-634)
WrittenValue(s, run) ==
    IF run.field = "suara" THEN SoundNewValue(run.current) ELSE FlashNewValue(run.current)

StoreRace ==
    Tree({ <<Dev("D1", "suara"), Str(<<"off">>)>>,
           <<Dev("D1", "flash"), Str(<<"on">>)>>,
           <<Dev("D1", "nama_perangkat"), Str(<<"Pixel">>)>> })
RaceStores == {StoreRace, StoreNoDates}

ToggleFields == {"suara", "flash"}
ToggleHead(field) == IF field = "suara" THEN "sound" ELSE "flash"

\* what the device's own application writes to the two fields
ActorValues(field) ==
    IF field = "suara" THEN {<<"on">>, <<"off">>} ELSE {<<"on">>, <<"off">>, <<"kedip">>}

InitRace ==
    /\ store \in RaceStores
    /\ strftime_pads_year = TRUE
    /\ device_message_target = NoDeviceTarget
    /\ app_edit_target = NoAppTarget
    /\ lastEvent = NoEvent
    /\ out = Silent
    /\ nEvents = 0
    /\ inflight = NoRead

\* the owner presses Suara or Flash of device D1: the handler reads the
\* field and holds it in current (lines 599-610, 617-628)
ToggleReads ==
    \E field \in ToggleFields :
        /\ Polling
        /\ nEvents < MaxEvents
        /\ nEvents' = nEvents + 1
        /\ lastEvent' = [kind |-> "button", user |-> Owner,
                         data |-> Tok2(ToggleHead(field), K("A1"), K("D1")),
                         text |-> <<>>, message |-> FALSE]
        /\ IF DevicesOf(store, K("A1")).k = "scalar"
           THEN out' = Fault /\ inflight' = NoRead
           ELSE /\ out' = Silent
                /\ inflight' = [active |-> TRUE, done |-> FALSE, field |-> field,
                                app_key |-> K("A1"), device_id |-> K("D1"),
                                current |-> CurrentSetting(store, K("A1"), K("D1"), field),
                                replaced |-> <<>>]
        /\ UNCHANGED <<store, device_message_target, app_edit_target, strftime_pads_year>>

\* another client of the same database sets one of the two fields; nothing
\* in the handler excludes it between lines 607 and 612, or 625 and 635
OtherActorWrites ==
    \E field \in ToggleFields :
      \E value \in ActorValues(field) :
        /\ store' = set_value(store, DeviceFieldKey(K("A1"), K("D1"), field), Str(value))
        /\ store' # store
        /\ UNCHANGED <<device_message_target, app_edit_target, lastEvent, out, nEvents,
                       strftime_pads_year, inflight>>

\* the handler writes new_value and renders the device from a fresh read
\* (lines 611-616, 629-639)
ToggleWrites ==
    \E write_ok \in BOOLEAN :
        /\ inflight.active
        /\ inflight' = [inflight EXCEPT !.active = FALSE, !.done = write_ok,
                                        !.replaced = CurrentSetting(store, inflight.app_key,
                                                                    inflight.device_id,
                                                                    inflight.field)]
        /\ store' = IF write_ok
                    THEN set_value(store,
                                   DeviceFieldKey(inflight.app_key, inflight.device_id,
                                                  inflight.field),
                                   Str(WrittenValue(store, inflight)))
                    ELSE store
        /\ out' = IF write_ok
                  THEN DeviceDetailView(store', inflight.app_key, inflight.device_id)
                  ELSE StoreFault
        /\ UNCHANGED <<device_message_target, app_edit_target, lastEvent, nEvents,
                       strftime_pads_year>>

NextRace == ToggleReads \/ OtherActorWrites \/ ToggleWrites \/ HandlerReturned

SpecRace == InitRace /\ [][NextRace]_vars

----------------------------------------------------------------------------
(* Three devices of one day, stored in an order that is not their order in time *)

\* D1 and D3 carry the same timestamp, D2 a later one
InitOrder ==
    /\ store = Tree({ <<Dev("D1", "waktu"), Str(Waktu2)>>,
                      <<Dev("D2", "waktu"), Str(Waktu1)>>,
                      <<Dev("D3", "waktu_start"), Str(Waktu2)>> })
    /\ strftime_pads_year = TRUE
    /\ device_message_target = NoDeviceTarget
    /\ app_edit_target = NoAppTarget
    /\ lastEvent = NoEvent
    /\ out = Silent
    /\ nEvents = 0
    /\ inflight = NoRead

SpecOrder == InitOrder /\ [][Next]_vars

----------------------------------------------------------------------------
(* Properties *)

AppKeys == {K("A1"), K("A2"), K("A9")}
DeviceKeys == {K("D1"), K("D2"), K("D3")}

OwnerPressed(e) == e.kind = "button" /\ e.user = Owner
OwnerSaid(e) == e.kind = "text" /\ e.user = Owner /\ e.message

NothingPending(dmt, aet) == ~dmt.armed /\ ~aet.armed

FieldPath(a, d, f) == <<a, K("perangkat"), d, K(f)>>

\* the content of a leaf: absent, or the scalar stored there
Raw(s, p) == IF p \in DOMAIN s THEN [has |-> TRUE, v |-> s[p]] ELSE [has |-> FALSE, v |-> Str(<<>>)]

Holds(s, p, word) == Raw(s, p) = [has |-> TRUE, v |-> Str(<<word>>)]

\* C1: arming replaces.  After the operator presses an arming button the
\* pending state is exactly the target of that press and nothing armed by an
\* earlier press remains, so at most one pending action exists in every
\* reachable state.
C1_ArmingReplaces ==
    /\ ~(device_message_target.armed /\ app_edit_target.armed)
    /\ \A a \in AppKeys :
          /\ (OwnerPressed(lastEvent) /\ lastEvent.data = Tok1("app_edit_desc", a))
                => (app_edit_target = AppTarget(a, K("keterangan"))
                    /\ ~device_message_target.armed)
          /\ (OwnerPressed(lastEvent) /\ lastEvent.data = Tok1("app_edit_pin", a))
                => (app_edit_target = AppTarget(a, K("kiosk_mode_pin"))
                    /\ ~device_message_target.armed)
          /\ \A d \in DeviceKeys :
                (OwnerPressed(lastEvent) /\ lastEvent.data = Tok2("msg", a, d))
                    => (device_message_target = DeviceTarget(a, d) /\ ~app_edit_target.armed)

\* the single writes a commit of text can make for the armed slots
CommitWrites(s, dmt, aet, text) ==
    (IF dmt.armed
     THEN {set_value(s, DeviceFieldKey(dmt.app_key, dmt.device_id, "pesan_clear_virus"),
                     Str(text))}
     ELSE {})
    \cup (IF aet.armed /\ aet.field = K("keterangan")
          THEN {set_value(s, Slash(aet.app_key, K("keterangan")), Str(text))} ELSE {})
    \cup (IF aet.armed /\ aet.field = K("kiosk_mode_pin") /\ IntParses(text) /\ text # <<>>
          THEN {set_value(s, Slash(aet.app_key, K("kiosk_mode_pin")), Num(IntOf(text)))}
          ELSE {})

\* C2: commit then Idle.  A text of the operator that is committed makes one
\* write, to the field of an armed target, and leaves nothing armed; a text
\* that finds nothing armed writes nothing.
C2_CommitThenIdle ==
    [][(Polling /\ OwnerSaid(lastEvent'))
          => /\ (store' # store
                    => /\ store' \in CommitWrites(store, device_message_target,
                                                  app_edit_target, Strip(lastEvent'.text))
                                     \cup CommitWrites(store, device_message_target,
                                                       app_edit_target, lastEvent'.text)
                       /\ NothingPending(device_message_target', app_edit_target'))
             /\ (NothingPending(device_message_target, app_edit_target) => store' = store)]_vars

\* C3: the PIN retry path.  While a PIN edit is armed, a text that is not made
\* of decimal digits only (surrounding whitespace, which the handler strips,
\* is not counted against it) gets the validation error, writes nothing and
\* leaves the pending action as it was; a text of decimal digits is written
\* as a number to kiosk_mode_pin of that app and clears the pending action.
C3_PinRetry ==
    [][(/\ Polling /\ OwnerSaid(lastEvent')
        /\ app_edit_target.armed /\ app_edit_target.field = K("kiosk_mode_pin"))
          => LET digits == Strip(lastEvent'.text)
             IN  IF digits # <<>> /\ IntParses(digits)
                 THEN out'.fault # "store"
                        => /\ store' = set_value(store,
                                                 Slash(app_edit_target.app_key,
                                                       K("kiosk_mode_pin")),
                                                 Num(IntOf(digits)))
                           /\ ~app_edit_target'.armed
                 ELSE /\ out' = PinError
                      /\ store' = store
                      /\ app_edit_target' = app_edit_target
                      /\ device_message_target' = device_message_target]_vars

\* C4: with nothing armed, a text message is a no-op: no store write, nothing
\* rendered, and nothing armed afterwards.
C4_IdleTextIsNoOp ==
    [][(Polling /\ lastEvent'.kind = "text"
        /\ NothingPending(device_message_target, app_edit_target))
          => /\ store' = store
             /\ out' = Silent
             /\ NothingPending(device_message_target', app_edit_target')]_vars

C4_Witness ==
    /\ OwnerSaid(lastEvent)
    /\ out = Silent
    /\ NothingPending(device_message_target, app_edit_target)
    /\ store # StoreEmpty

\* C5: an update whose sender is not the owner writes nothing and leaves both
\* pending slots as they were, whatever its token or text; a button press is
\* answered with the access-denied screen.
C5_Authorization ==
    [][(Polling /\ lastEvent'.kind \in {"button", "text"} /\ lastEvent'.user # Owner)
          => /\ store' = store
             /\ device_message_target' = device_message_target
             /\ app_edit_target' = app_edit_target
             /\ (lastEvent'.kind = "button" => out' = AccessDenied)
             /\ (lastEvent'.kind = "text" => out' = Silent)]_vars

C5_Witness ==
    /\ lastEvent.kind = "button" /\ lastEvent.user = "stranger"
    /\ lastEvent.data = Tok2("sound", K("A1"), K("D1"))
    /\ out = AccessDenied
    /\ device_message_target.armed
    /\ store = StoreSameDay

\* the label of the sound button of a device detail screen
SoundLabel(screen) == screen.keyboard[2][1].label

\* C6: a sound press writes "on" when suara is absent or "off" and "off" when
\* it is "on", and the device detail screen it renders shows the written
\* value on the sound button.
C6_SoundToggle ==
    [][\A a \in AppKeys, d \in DeviceKeys :
          (/\ Polling /\ OwnerPressed(lastEvent')
           /\ lastEvent'.data = Tok2("sound", a, d)
           /\ out'.fault # "store")
             => LET p == FieldPath(a, d, "suara")
                    new == IF Holds(store, p, "on") THEN "off" ELSE "on"
                IN  (~Raw(store, p).has \/ Holds(store, p, "off") \/ Holds(store, p, "on"))
                       => /\ Holds(store', p, new)
                          /\ out'.fault = "none"
                          /\ SoundLabel(out') = <<"Suara: ", new>>]_vars

C6_Witness ==
    /\ OwnerPressed(lastEvent)
    /\ lastEvent.data = Tok2("sound", K("A1"), K("D1"))
    /\ Holds(store, FieldPath(K("A1"), K("D1"), "suara"), "on")
    /\ out.fault = "none" /\ Len(out.keyboard) >= 2
    /\ SoundLabel(out) = <<"Suara: ", "on">>
    /\ Raw(store, Dev("D1", "waktu")) = Raw(StoreSameDay, Dev("D1", "waktu"))

\* a sound press of the operator on device d of application a has been served
SoundPressed(a, d) ==
    /\ Polling /\ OwnerPressed(lastEvent')
    /\ lastEvent'.data = Tok2("sound", a, d)
    /\ out'.fault # "store"

\* C7 as stated: for every content of suara, a sound press followed by a
\* second one, with no other write in between, returns the field to its
\* original value.
C7_InvolutionAnyContent ==
    [][\A a \in AppKeys, d \in DeviceKeys :
          SoundPressed(a, d)
             => Raw(SoundWrite(store', a, d), FieldPath(a, d, "suara"))
                   = Raw(store, FieldPath(a, d, "suara"))]_vars

\* C7 amended: a sound press followed by a second one, with no other write
\* in between, returns suara to its original value when that value is "on"
\* or "off"; from an absent field the two presses leave "off", the value an
\* absent field is read as.
C7_InvolutionOnOff ==
    [][\A a \in AppKeys, d \in DeviceKeys :
          LET p == FieldPath(a, d, "suara")
              twice == SoundWrite(store', a, d)
          IN  SoundPressed(a, d)
                 => /\ (Holds(store, p, "on") \/ Holds(store, p, "off"))
                          => Raw(twice, p) = Raw(store, p)
                    /\ ~Raw(store, p).has => Holds(twice, p, "off")]_vars

\* the second of two presses in a row has acted: suara of D1 starts "off" in
\* StoreNoDates and is "off" again after the second update
C7_Witness ==
    /\ OwnerPressed(lastEvent)
    /\ lastEvent.data = Tok2("sound", K("A1"), K("D1"))
    /\ nEvents = 2
    /\ Holds(store, FieldPath(K("A1"), K("D1"), "suara"), "off")
    /\ Raw(store, Dev("D2", "waktu")) = Raw(StoreNoDates, Dev("D2", "waktu"))

FlashOrder(word) ==
    CASE word = "off" -> "kedip"
      [] word = "kedip" -> "on"
      [] word = "on" -> "off"

\* the flash value of the fixed order a leaf stands for; absent counts as off
FlashOf(s, p) == IF Raw(s, p).has THEN Raw(s, p).v.s[1] ELSE "off"

InFlashOrder(s, p) ==
    ~Raw(s, p).has \/ Holds(s, p, "off") \/ Holds(s, p, "kedip") \/ Holds(s, p, "on")

\* C8: a flash press moves the field one step along off -> kedip -> on -> off
\* (absent counts as off); a press followed by two more, with no other write
\* in between, brings back the value the field had, and a press followed by
\* one more does not.
C8_FlashCycle ==
    [][\A a \in AppKeys, d \in DeviceKeys :
          LET p == FieldPath(a, d, "flash")
              twice == FlashWrite(store', a, d)
              thrice == FlashWrite(twice, a, d)
          IN  (/\ Polling /\ OwnerPressed(lastEvent')
               /\ lastEvent'.data = Tok2("flash", a, d)
               /\ out'.fault # "store" /\ InFlashOrder(store, p))
                 => /\ Holds(store', p, FlashOrder(FlashOf(store, p)))
                    /\ FlashOf(thrice, p) = FlashOf(store, p)
                    /\ FlashOf(twice, p) # FlashOf(store, p)]_vars

\* the third of three presses in a row has acted: flash of D1 is absent in
\* StoreSameDay and is "off" after the third update
C8_Witness ==
    /\ OwnerPressed(lastEvent)
    /\ lastEvent.data = Tok2("flash", K("A1"), K("D1"))
    /\ nEvents = 3
    /\ Holds(store, FieldPath(K("A1"), K("D1"), "flash"), "off")
    /\ Raw(store, Dev("D2", "waktu")) = Raw(StoreSameDay, Dev("D2", "waktu"))

IsArming(data) ==
    \/ StartsWith(data, "dashboard_app_edit_desc")
    \/ StartsWith(data, "dashboard_app_edit_pin")
    \/ StartsWith(data, "dashboard_msg")

\* C9: only sound and flash presses write.  An arming press leaves the store
\* unchanged, arms its slot and renders a prompt; every other press leaves
\* the store and both slots unchanged.
C9_OnlyTogglesWrite ==
    [][(Polling /\ OwnerPressed(lastEvent') /\ ~IsToggle(lastEvent'.data))
          => /\ store' = store
             /\ IF IsArming(lastEvent'.data)
                THEN /\ out'.fault = "none" /\ out'.keyboard # <<>>
                     /\ (device_message_target'.armed \/ app_edit_target'.armed)
                ELSE /\ device_message_target' = device_message_target
                     /\ app_edit_target' = app_edit_target]_vars

C9_Witness ==
    /\ OwnerPressed(lastEvent)
    /\ lastEvent.data = Tok1("app_edit_desc", K("A1"))
    /\ app_edit_target = AppTarget(K("A1"), K("keterangan"))
    /\ out = EditDescView(store, K("A1"))
    /\ store = StoreSameDay

\* the date buckets of an application and its most recent one: the latest
\* real date, "unknown" only when no device has a real date
BucketsOf(s, a) ==
    LET entries == DeviceEntries(s, DevicesOf(s, a))
    IN  {entries[i].date_key : i \in 1..Len(entries)}

MostRecentBucket(s, a) ==
    LET entries == DeviceEntries(s, DevicesOf(s, a))
        real == {i \in 1..Len(entries) : entries[i].date_key # Unknown}
        day(i) == SubSeq(entries[i].dt, 1, 3)
    IN  IF real = {} THEN Unknown
        ELSE entries[CHOOSE i \in real : \A j \in real : ~TupleLess(day(i), day(j))].date_key

\* C10: on an application with at least one device, devices:<app>[:<bucket>]
\* shows the requested bucket when it is one of the application's buckets,
\* and otherwise the most recent bucket, "unknown" coming last.
C10_DevicesBucket ==
    \A a \in AppKeys, r \in {<<>>, Date1, Date3, Date9, Unknown} :
        (/\ OwnerPressed(lastEvent)
         /\ lastEvent.data = (IF r = <<>> THEN Tok1("devices", a) ELSE Tok2("devices", a, r))
         /\ BucketsOf(store, a) # {})
            => out.text = DevicesText(a, IF r \in BucketsOf(store, a) THEN r
                                         ELSE MostRecentBucket(store, a))

\* the intended order of the buckets: b is older than c when c is a later
\* real date, and "unknown" is older than every real date
BucketDay(s, a, b) ==
    LET entries == DeviceEntries(s, DevicesOf(s, a))
    IN  SubSeq(entries[CHOOSE i \in 1..Len(entries) : entries[i].date_key = b].dt, 1, 3)

OlderBucket(s, a, b, c) ==
    IF b = Unknown THEN c # Unknown
    ELSE c # Unknown /\ TupleLess(BucketDay(s, a, b), BucketDay(s, a, c))

\* the position of bucket b in the descending list, the newest being 1
BucketRank(s, a, b) == 1 + Cardinality({c \in BucketsOf(s, a) : OlderBucket(s, a, b, c)})

ButtonsOf(screen) ==
    UNION {{screen.keyboard[i][j] : j \in 1..Len(screen.keyboard[i])} :
              i \in 1..Len(screen.keyboard)}

DevicesRequests == {<<>>, Date1, Date3, Date9, Unknown}

DevicesPressed(a, r) ==
    /\ OwnerPressed(lastEvent)
    /\ lastEvent.data = (IF r = <<>> THEN Tok1("devices", a) ELSE Tok2("devices", a, r))

PrevDay(a, c) == Button(<<"Hari sebelumnya">>, Tok2("devices", a, c))
NextDay(a, c) == Button(<<"Hari berikutnya">>, Tok2("devices", a, c))

\* C11: the devices screen of the bucket at position i of the descending
\* bucket list has the previous-day button exactly when a bucket at position
\* i+1 exists, with the token that selects it, and the next-day button
\* exactly when a bucket at position i-1 exists, with the token that selects
\* it; so previous-day walks from the newest bucket through every bucket.
C11_Pagination ==
    \A a \in AppKeys, r \in DevicesRequests :
        (DevicesPressed(a, r) /\ BucketsOf(store, a) # {})
           => /\ out.fault = "none"
              /\ \E b \in BucketsOf(store, a) :
                    /\ out.text = DevicesText(a, b)
                    /\ \A c \in BucketsOf(store, a) :
                          /\ PrevDay(a, c) \in ButtonsOf(out)
                                <=> BucketRank(store, a, c) = BucketRank(store, a, b) + 1
                          /\ NextDay(a, c) \in ButtonsOf(out)
                                <=> BucketRank(store, a, c) = BucketRank(store, a, b) - 1
                    /\ \A btn \in ButtonsOf(out) :
                          btn.label \in {<<"Hari sebelumnya">>, <<"Hari berikutnya">>}
                             => \E c \in BucketsOf(store, a) : btn \in {PrevDay(a, c), NextDay(a, c)}

\* C12: in the ordered bucket list computed for the devices screen, the
\* "unknown" bucket, when present, is last, after every real date bucket,
\* whatever the real dates are.
C12_UnknownLast ==
    \A a \in AppKeys, r \in DevicesRequests :
        (DevicesPressed(a, r) /\ Unknown \in BucketsOf(store, a))
           => LET sorted_dates == SortedDates(DeviceEntries(store, DevicesOf(store, a)))
              IN  sorted_dates[Len(sorted_dates)] = Unknown

RecognizedHeads ==
    { Tok("refresh"), Tok("list"), Tok("apps"), Tok("app"), Tok("app_edit_desc"),
      Tok("app_edit_pin"), Tok("devices"), Tok("device"), Tok("msg"), Tok("sound"),
      Tok("flash"), Tok("help_set") }

\* a token that names no case, or names a case and lacks a segment it needs
Malformed(data) ==
    LET parts == SplitOn(data, ":")
    IN  \/ parts[1] \notin RecognizedHeads
        \/ parts[1] \in {Tok("device"), Tok("msg"), Tok("sound"), Tok("flash")} /\ Len(parts) < 3
        \/ parts[1] \in {Tok("app"), Tok("app_edit_desc"), Tok("app_edit_pin"), Tok("devices")}
              /\ Len(parts) < 2

\* C13: a token that is malformed or unrecognized never crashes dispatch and
\* has no side effect: the store and the pending actions stay as they were
\* and the dashboard is rendered.
C13_MalformedTokens ==
    [][(Polling /\ OwnerPressed(lastEvent') /\ Malformed(lastEvent'.data))
          => /\ store' = store
             /\ device_message_target' = device_message_target
             /\ app_edit_target' = app_edit_target
             /\ out' = DashboardView(store)]_vars

\* a scalar sits where the press on device d of application a expects a record
ScalarInvolved(s, a, d) ==
    \/ Raw(s, <<a>>).has
    \/ Raw(s, <<a, K("perangkat")>>).has
    \/ Raw(s, <<a, K("perangkat"), d>>).has

AddressesScalar(s, data) ==
    \E a \in AppKeys, d \in DeviceKeys :
        /\ ScalarInvolved(s, a, d)
        /\ data \in {Tok1("devices", a), Tok2("device", a, d), Tok2("msg", a, d),
                     Tok2("sound", a, d), Tok2("flash", a, d)}
                    \cup {Tok2("devices", a, r) : r \in DevicesRequests \ {<<>>}}

\* C14: every recognized case pressed by the operator, on a store in which
\* the addressed application, device or field may be absent, completes
\* without an unhandled fault and produces a screen: a text and buttons.
C14_NoFaultOnAbsent ==
    [][(/\ Polling /\ OwnerPressed(lastEvent')
        /\ ~Malformed(lastEvent'.data)
        /\ ~AddressesScalar(store, lastEvent'.data)
        /\ out'.fault # "store")
          => /\ out'.fault = "none"
             /\ out'.text # <<>>
             /\ out'.keyboard # <<>>]_vars

\* C15: where the application node, its perangkat node or a device entry
\* is a scalar, the devices, device, sound and flash cases complete without
\* fault, and every device button the devices list offers opens a device
\* screen.
C15_ScalarAsEmptyRecord ==
    [][\A a \in AppKeys, d \in DeviceKeys :
          (/\ Polling /\ OwnerPressed(lastEvent')
           /\ lastEvent'.data \in {Tok1("devices", a), Tok2("device", a, d),
                                   Tok2("sound", a, d), Tok2("flash", a, d)}
           /\ ScalarInvolved(store, a, d)
           /\ out'.fault # "store")
             => /\ out'.fault = "none"
                /\ \A btn \in ButtonsOf(out') :
                      StartsWith(btn.data, "dashboard_device")
                         => dashboard_callback(store', device_message_target',
                                               app_edit_target', btn.data, TRUE).out.fault
                               = "none"]_vars

\* the number of presses within which the dashboard is looked for
BackPresses == 2

\* the dashboard is on screen, or some chain of at most n of the buttons on
\* screen leads to it
RECURSIVE ReachesDashboard(_, _, _, _, _)
ReachesDashboard(screen, s, dmt, aet, n) ==
    \/ screen = DashboardView(s)
    \/ /\ n > 0
       /\ \E btn \in ButtonsOf(screen) :
             LET r == dashboard_callback(s, dmt, aet, btn.data, TRUE)
             IN  /\ r.out.fault = "none"
                 /\ ReachesDashboard(r.out, r.store, r.device_message_target,
                                     r.app_edit_target, n - 1)

\* the tokens of the screens of the graph: dashboard, flat list, application
\* list, application, edit prompts, devices list, device detail, message
\* prompt and help
ScreenTokens ==
    {<<"dashboard_refresh">>, <<"dashboard_list">>, <<"dashboard_apps">>,
     <<"dashboard_help_set">>}
    \cup {Tok1(h, a) : h \in {"app", "app_edit_desc", "app_edit_pin", "devices"},
                       a \in AppKeys}
    \cup {Tok2("devices", a, r) : a \in AppKeys, r \in DevicesRequests \ {<<>>}}
    \cup {Tok2(h, a, d) : h \in {"device", "msg"}, a \in AppKeys, d \in DeviceKeys}

\* C16: every screen of the graph that the operator opens by a button press
\* (the flat list among them) is rendered, carries at least one button, and
\* the dashboard is reachable from it by pressing buttons.
C16_NoDeadEnds ==
    (/\ ~Polling /\ OwnerPressed(lastEvent)
     /\ lastEvent.data \in ScreenTokens
     /\ ~AddressesScalar(store, lastEvent.data))
        => /\ out.fault = "none"
           /\ ButtonsOf(out) # {}
           /\ ReachesDashboard(out, store, device_message_target, app_edit_target,
                               BackPresses)

AbsentApp(s, a) == get_value(s, a).k = "none"
AbsentDevice(s, a, d) ==
    /\ ~ScalarInvolved(s, a, d)
    /\ DictGet(s, DevicesOf(s, a), d).k = "none"

AppNotFoundText(a) == <<"Data aplikasi '">> \o a \o <<"' tidak ditemukan di Firebase.">>
DeviceNotFoundText(a, d) ==
    <<"Data perangkat '">> \o d \o <<"' untuk aplikasi '">> \o a \o <<"' tidak ditemukan.">>

HasButtonTo(screen, data) == \E btn \in ButtonsOf(screen) : btn.data = data

C17_WitnessApp ==
    /\ ~Polling /\ OwnerPressed(lastEvent)
    /\ \E a \in AppKeys :
          /\ lastEvent.data = Tok1("app", a)
          /\ AbsentApp(store, a)
          /\ out.text = AppNotFoundText(a)

\* the operator asked for the flat list, by /list or by the button
ListAsked ==
    /\ ~Polling /\ lastEvent.user = Owner
    /\ \/ lastEvent.kind = "command" /\ lastEvent.message
       \/ lastEvent.kind = "button" /\ lastEvent.data = Tok("list")

\* the rendered lines under the heading (the button's text has one, the
\* reply of /list has none)
RenderedLines(screen) ==
    IF lastEvent.kind = "button" /\ screen.text # <<>>
    THEN Tail(SplitOn(screen.text, "\n"))
    ELSE SplitOn(screen.text, "\n")

IsTrailerLine(line) == line # <<>> /\ line[1] = "... dan "
KeyLines(screen) == SelectSeq(RenderedLines(screen), LAMBDA l : ~IsTrailerLine(l))
TrailerLines(screen) == SelectSeq(RenderedLines(screen), IsTrailerLine)

\* the line of the i-th key of the root, in iteration order
KeyLine(s, i) ==
    Items(s, list_keys(s))[i] \o <<" = ">>
        \o ValueRepr(s, DictGet(s, list_keys(s), Items(s, list_keys(s))[i]), ListValueCap)

RECURSIVE Accumulated(_)
\* the length the loop has accumulated over these lines
Accumulated(lines) ==
    IF lines = <<>> THEN 0 ELSE StrLen(Head(lines)) + 1 + Accumulated(Tail(lines))

TruncatedAsClaimed(s, n, screen, k) ==
    /\ k <= n
    /\ \A i \in 1..k : KeyLines(screen)[i] = KeyLine(s, i)
    /\ Accumulated(KeyLines(screen)) <= ListCap
    /\ k < n => Accumulated(KeyLines(screen)) + StrLen(KeyLine(s, k + 1)) + 1 > ListCap
    /\ TrailerLines(screen)
         = IF k < n
           THEN << <<"... dan ">> \o DecStr(n - k)
                   \o <<" key lainnya. Gunakan /get <key> untuk melihat detail.">> >>
           ELSE <<>>

\* C18: for a root of n >= 1 keys the flat list is rendered with k <= n key
\* lines; a key is left out only where its whole line would take the
\* accumulated length over the 3500-character cap; the accumulated key
\* lines stay within the cap; and the trailer is there exactly when k < n,
\* counting the n - k keys left out.
C18_ListTruncation ==
    (ListAsked /\ KeysOf(store, list_keys(store)) # {})
        => /\ out.fault = "none"
           /\ TruncatedAsClaimed(store, Cardinality(KeysOf(store, list_keys(store))),
                                 out, Len(KeyLines(out)))

\* the events that reach a store write: a sound or flash press, and a text
\* while a slot is armed
ReachesWrite(e, dmt, aet) ==
    \/ OwnerPressed(e) /\ IsToggle(e.data)
    \/ OwnerSaid(e) /\ (dmt.armed \/ aet.armed)

\* C19: where the write of a sound press, a flash press or a commit fails,
\* the event ends there: nothing is rendered, the store is as it was, and
\* both slots are as they were, so a pending action is still armed.
C19_FailedWrite ==
    [][(Polling /\ out'.fault = "store")
          => /\ ReachesWrite(lastEvent', device_message_target, app_edit_target)
             /\ out'.text = <<>> /\ out'.keyboard = <<>>
             /\ store' = store
             /\ device_message_target' = device_message_target
             /\ app_edit_target' = app_edit_target]_vars

\* the write of a message commit has failed and the target is still armed
C19_Witness ==
    /\ ~Polling /\ OwnerSaid(lastEvent)
    /\ out.fault = "store"
    /\ device_message_target.armed

\* the write of a toggle has failed
C19_WitnessToggle ==
    /\ ~Polling /\ OwnerPressed(lastEvent) /\ IsToggle(lastEvent.data)
    /\ out.fault = "store"

\* the scalar the field of the run holds in s
FieldOf(s, run) == Raw(s, FieldPath(run.app_key, run.device_id, run.field))

\* the write of a toggle run has returned
WriteReturned == inflight.active /\ inflight'.done

\* C20: the write of a sound or flash press commits the value computed from
\* what the press read, whatever another actor has written to the field
\* since: the field then holds the successor of the stale value, and the
\* other actor's value is gone.
C20_UnguardedToggle ==
    [][WriteReturned
          => /\ FieldOf(store', inflight').has
             /\ FieldOf(store', inflight').v
                  = Str(IF inflight.field = "suara" THEN SoundNewValue(inflight.current)
                        ELSE FlashNewValue(inflight.current))]_vars

\* a lost update: another actor changed the field between the read and the
\* write, and the field now holds what the stale read leads to, not what the
\* changed content would have led to
C20_Witness ==
    /\ inflight.done
    /\ inflight.field = "suara"
    /\ inflight.replaced # inflight.current
    /\ FieldOf(store, inflight).v = Str(SoundNewValue(inflight.current))
    /\ SoundNewValue(inflight.current) # SoundNewValue(inflight.replaced)
    /\ out.fault = "none"

\* the leaves whose content differs between two stores
Changed(s, t) == {p \in DOMAIN s \cup DOMAIN t : Raw(s, p) # Raw(t, p)}

\* C21: every store mutation is a single-field write.  A sound press on
\* <app>:<device> changes only <app>/perangkat/<device>/suara, a flash press
\* only .../flash, a message commit only .../pesan_clear_virus of the armed
\* device, a description commit only <app>/keterangan and a PIN commit only
\* <app>/kiosk_mode_pin of the armed application; every other leaf stays.
C21_SingleFieldWrite ==
    [][(Polling /\ store' # store)
          => \E a \in AppKeys, d \in DeviceKeys :
                \/ /\ OwnerPressed(lastEvent')
                   /\ lastEvent'.data = Tok2("sound", a, d)
                   /\ Changed(store, store') = {FieldPath(a, d, "suara")}
                \/ /\ OwnerPressed(lastEvent')
                   /\ lastEvent'.data = Tok2("flash", a, d)
                   /\ Changed(store, store') = {FieldPath(a, d, "flash")}
                \/ /\ OwnerSaid(lastEvent')
                   /\ device_message_target = DeviceTarget(a, d)
                   /\ Changed(store, store') = {FieldPath(a, d, "pesan_clear_virus")}
                \/ /\ OwnerSaid(lastEvent')
                   /\ app_edit_target = AppTarget(a, K("keterangan"))
                   /\ Changed(store, store') = {<<a, K("keterangan")>>}
                \/ /\ OwnerSaid(lastEvent')
                   /\ app_edit_target = AppTarget(a, K("kiosk_mode_pin"))
                   /\ Changed(store, store') = {<<a, K("kiosk_mode_pin")>>}]_vars

\* the date of a timestamp written as YYYY-MM-DD
PaddedDate(dt) ==
    ZeroPad(DecStr(dt[1]), 4) \o <<"-">> \o ZeroPad(DecStr(dt[2]), 2) \o <<"-">>
        \o ZeroPad(DecStr(dt[3]), 2)

\* the string a device entry offers as its timestamp: waktu, or waktu_start
\* where waktu is missing or empty; <<>> where the entry is not a record or
\* offers no string
TimestampOf(s, a, d) ==
    LET data == DictGet(s, DevicesOf(s, a), d)
        waktu == DictGet(s, data, K("waktu"))
        value == IF RefTruthy(s, waktu) THEN waktu ELSE DictGet(s, data, K("waktu_start"))
    IN  IF data.k = "dict" /\ value.k = "scalar" /\ ScalarOf(s, value).t = "str"
        THEN ScalarOf(s, value).s ELSE <<>>

\* the bucket of a device: unknown, or the date of its timestamp
BucketOfDevice(s, a, d) ==
    IF StrptimeDatetime(TimestampOf(s, a, d)) = DatetimeMin THEN Unknown
    ELSE PaddedDate(StrptimeDatetime(TimestampOf(s, a, d)))

\* the names a bucket of application a may go by
BucketNames(s, a) ==
    {Unknown} \cup BucketsOf(s, a)
        \cup {BucketOfDevice(s, a, d) : d \in KeysOf(s, DevicesOf(s, a))}

\* how often device d is offered on the screen of bucket b (0 where b has no
\* screen of its own)
TimesListed(s, a, b, d) ==
    LET screen == dashboard_callback(s, NoDeviceTarget, NoAppTarget,
                                     Tok2("devices", a, b), TRUE).out
    IN  IF screen.fault = "none" /\ screen.text = DevicesText(a, b)
        THEN Cardinality({i \in 1..Len(screen.keyboard) :
                             \E j \in 1..Len(screen.keyboard[i]) :
                                screen.keyboard[i][j].data = Tok2("device", a, d)})
        ELSE 0

\* C22: grouping is a partition.  Every device id of a perangkat mapping is
\* offered exactly once, on the screen of exactly one bucket: unknown where
\* the entry is not a record, offers no string timestamp or the string does
\* not parse, and otherwise the YYYY-MM-DD date of its timestamp.
C22_GroupingPartition ==
    \A a \in AppKeys :
        DevicesOf(store, a).k = "dict"
            => \A d \in KeysOf(store, DevicesOf(store, a)) :
                  \A b \in BucketNames(store, a) :
                      TimesListed(store, a, b, d)
                          = IF b = BucketOfDevice(store, a, d) THEN 1 ELSE 0

\* the device ids of the device buttons of a screen of application a, from
\* the top
ListedDevices(screen, a) ==
    LET rows == SelectSeq(screen.keyboard,
                          LAMBDA row : \E d \in DeviceKeys : row[1].data = Tok2("device", a, d))
    IN  [i \in 1..Len(rows) |-> CHOOSE d \in DeviceKeys : rows[i][1].data = Tok2("device", a, d)]

\* the parsed timestamp of a device, datetime.min where it has none
StampOf(s, a, d) == StrptimeDatetime(TimestampOf(s, a, d))

\* the place of a device in the iteration order of the perangkat mapping
IterationPlace(s, a, d) == IndexOf(Items(s, DevicesOf(s, a)), d)

\* C23: the device buttons of the selected bucket are listed by descending
\* parsed timestamp, and devices of equal timestamp keep their iteration
\* order.
C23_DescendingStable ==
    \A a \in AppKeys, r \in DevicesRequests :
        (~Polling /\ DevicesPressed(a, r) /\ out.fault = "none")
            => \A i, j \in 1..Len(ListedDevices(out, a)) :
                  i < j =>
                    \/ TupleLess(StampOf(store, a, ListedDevices(out, a)[j]),
                                 StampOf(store, a, ListedDevices(out, a)[i]))
                    \/ /\ StampOf(store, a, ListedDevices(out, a)[j])
                            = StampOf(store, a, ListedDevices(out, a)[i])
                       /\ IterationPlace(store, a, ListedDevices(out, a)[i])
                            < IterationPlace(store, a, ListedDevices(out, a)[j])

\* the later device D2 is listed first although it is stored second, and D1
\* stays ahead of D3, which carries the same timestamp
C23_Witness ==
    /\ ~Polling /\ DevicesPressed(K("A1"), <<>>) /\ out.fault = "none"
    /\ ListedDevices(out, K("A1")) = <<K("D2"), K("D1"), K("D3")>>
    /\ StampOf(store, K("A1"), K("D1")) = StampOf(store, K("A1"), K("D3"))

\* the operator presses Batalkan of the prompt of the armed application edit
CancelPressed ==
    /\ Polling /\ app_edit_target.armed
    /\ OwnerPressed(lastEvent')
    /\ lastEvent'.data = Tok1("app", app_edit_target.app_key)

\* C24: cancel abandons the edit.  Once the operator has pressed the cancel
\* button of the description or PIN prompt, a free-text message that
\* follows without a new arming press writes nothing to the store.
C24_CancelAbandons ==
    [][CancelPressed
          => \A text \in Texts :
                device_message_handler(store', device_message_target', app_edit_target',
                                       text, TRUE).store = store']_vars

\* a text of the operator arrives while a pending action is armed, and the
\* store accepts what is written
TextWhileArmed ==
    /\ Polling /\ OwnerSaid(lastEvent')
    /\ device_message_target.armed \/ app_edit_target.armed
    /\ out'.fault # "store"

\* the text was committed: a confirmation screen is shown and the pending
\* action it served is cleared
CommittedAndCleared ==
    /\ out'.fault = "none" /\ out'.text # <<>> /\ out' # PinError
    /\ IF device_message_target.armed THEN ~device_message_target'.armed
       ELSE ~app_edit_target'.armed

\* C25: while a pending action is armed the operator's next text is never
\* silently ignored: it is committed, with a confirmation screen and the
\* pending action cleared, or it gets the validation error of the PIN.
C25_TextNeverDropped ==
    [][TextWhileArmed => (CommittedAndCleared \/ out' = PinError)]_vars

\* C26: a committed PIN preserves what the operator sent.  For an all-digit
\* text committed to kiosk_mode_pin of the armed application, the stored
\* value written in decimal is the text itself, leading zeros included.
C26_PinRoundTrip ==
    [][\A a \in AppKeys :
          (/\ Polling /\ OwnerSaid(lastEvent')
           /\ ~device_message_target.armed
           /\ app_edit_target = AppTarget(a, K("kiosk_mode_pin"))
           /\ IsDigit(lastEvent'.text)
           /\ out'.fault = "none")
             => /\ Raw(store', <<a, K("kiosk_mode_pin")>>).has
                /\ ToStr(Raw(store', <<a, K("kiosk_mode_pin")>>).v) = lastEvent'.text]_vars

\* the device ids under the perangkat mapping of application a
DeviceIds(s, a) == KeysOf(s, DevicesOf(s, a))

\* C27: a sound or flash press creates no device entry.  Whatever device id
\* the press names, the set of device ids of every application is the same
\* after the press as before.
C27_NoDeviceCreated ==
    [][(Polling /\ OwnerPressed(lastEvent') /\ IsToggle(lastEvent'.data))
          => \A a \in AppKeys : DeviceIds(store', a) = DeviceIds(store, a)]_vars

====
